---- MODULE Spec2Model ----
(***************************************************************************)
(* NVR surveillance: the bufferless frame acquisition of                   *)
(* utils/camera_tools.py (BufferlessVideoCapture: constructor, _reader      *)
(* thread, read, stop_reader, __del__), the orchestration loop of main.py, *)
(* the failure report and notification predicate of utils/telegram_bot.py  *)
(* and the zone containment test of utils/cv_utils.py.                     *)
(*                                                                         *)
(* Frames are identified by their decode order: the k-th frame that        *)
(* cap.read() returns for a camera is the number k.  Time is an integer    *)
(* number of seconds since the start of the run.  Pixel coordinates are    *)
(* counted in half pixels, because midpoint_bottom halves a sum of integer *)
(* pixel coordinates.                                                      *)
(***************************************************************************)
EXTENDS Integers, Sequences, FiniteSets, TLC

(* ------------------------------ bounds --------------------------------- *)
MaxFrames == 4       \* frames a source delivers before it ends
MaxIter == 3         \* iterations of the main loop
MaxTime == 2         \* seconds the run can last
MaxBoxes == 2        \* boxes model.predict returns for a frame

(* ------------------------- program constants --------------------------- *)
\* datetime(2000, 1, 1, 1, 1, 1) relative to the start of the run
Year2000 == -100
\* verbose_level argument of check_and_report_camera_failure (main.py:52)
FailureVerboseLevel == 2
\* verbose_level argument of send_cv2_frame (main.py:96)
FrameVerboseLevel == 1

(* --------------------------- configuration ----------------------------- *)
\* config.ini: [Parameters] timeout_count_before_message, runtime_verbose_level,
\* min_detections_in_a_row, [Telegram] bot_frame_timeout, and the [Camera_x]
\* sections with their zones (zone fractions in tenths: 1 stands for 0.1)
ZonedCamera == [zones |-> << <<1, 1, 9, 9>> >>]
OpenCamera == [zones |-> << >>]
Configs ==
    { [timeout_count_before_message |-> 1, runtime_verbose_level |-> 2,
       min_detections_in_a_row |-> 1, bot_frame_timeout |-> 1,
       cameras |-> << ZonedCamera >>],
      [timeout_count_before_message |-> 2, runtime_verbose_level |-> 3,
       min_detections_in_a_row |-> 2, bot_frame_timeout |-> 0,
       cameras |-> << ZonedCamera >>],
      [timeout_count_before_message |-> 2, runtime_verbose_level |-> 1,
       min_detections_in_a_row |-> 2, bot_frame_timeout |-> 1,
       cameras |-> << OpenCamera >>],
      [timeout_count_before_message |-> 2, runtime_verbose_level |-> 1,
       min_detections_in_a_row |-> 3, bot_frame_timeout |-> 60,
       cameras |-> << ZonedCamera >>],
      [timeout_count_before_message |-> 1, runtime_verbose_level |-> 0,
       min_detections_in_a_row |-> 1, bot_frame_timeout |-> 0,
       cameras |-> << OpenCamera >>] }

VARIABLES
    config,                  \* the loaded configuration
    \* --- BufferlessVideoCapture, one per camera
    q,                       \* self.q: the frames in the queue, oldest first
    _stop,                   \* self._stop: "unset" before its assignment
    rpc,                     \* position of the _reader thread
    frame,                   \* _reader's local frame (0: none yet)
    queue_timeouts_counter,
    detections_in_a_row,
    last_detection_dt,
    released,                \* number of cap.release() calls
    \* --- main thread
    mpc,                     \* position of main()
    cur,                     \* camera the main thread is working on
    loop_iteration_counter,
    now,                     \* datetime.now()
    \* --- observation of the run
    published,               \* frame of the latest completed q.put
    delivered,               \* frames read() has returned, in order
    callPub,                 \* published[c] when camera c's last read() was called
    lastRead,                \* what that read() returned: "frame", "none",
                             \* or "-" before it has returned
    toRun,                   \* timed-out reads since the last successful read
    toAll,                   \* timed-out reads since the construction
    reports,                 \* failure reports sent per camera
    sent,                    \* notification frames sent per camera
    notified,                \* calls of send_cv2_frame per camera
    hitRun,                  \* latest processed frames in a row with a counted box
    sentAt,                  \* time of the camera's latest send_cv2_frame call
    \* --- a single call of a function of cv_utils.py / telegram_bot.py
    pfn,                     \* the function and whether it has returned
    pargs,                   \* its arguments
    pres                     \* its result

\* setup_cameras (setup_cleanup.py:70-73): one object per camera section
Cameras == DOMAIN config.cameras
NumCameras == Len(config.cameras)

vars == << config, q, _stop, rpc, frame, queue_timeouts_counter,
           detections_in_a_row, last_detection_dt, released, mpc, cur,
           loop_iteration_counter, now, published, delivered, callPub,
           lastRead, toRun, toAll, reports, sent, notified, hitRun,
           sentAt, pfn, pargs, pres >>

pureVars == << pfn, pargs, pres >>
camVars == << q, _stop, rpc, frame, released >>
sessVars == << queue_timeouts_counter, detections_in_a_row, last_detection_dt >>
mainVars == << mpc, cur, loop_iteration_counter, now >>
obsVars == << published, delivered, callPub, lastRead, toRun, toAll, reports,
             sent, notified, hitRun, sentAt >>

ProgramInit(configs) ==
    /\ config \in configs
    /\ q = [c \in Cameras |-> << >>]
    /\ _stop = [c \in Cameras |-> "unset"]
    /\ rpc = [c \in Cameras |-> "unstarted"]
    /\ frame = [c \in Cameras |-> 0]
    /\ queue_timeouts_counter = [c \in Cameras |-> 0]
    /\ detections_in_a_row = [c \in Cameras |-> 0]
    /\ last_detection_dt = [c \in Cameras |-> Year2000]
    /\ released = [c \in Cameras |-> 0]
    /\ mpc = "ctor_start"
    /\ cur = 1
    /\ loop_iteration_counter = 0
    /\ now = 0
    /\ published = [c \in Cameras |-> 0]
    /\ delivered = [c \in Cameras |-> << >>]
    /\ callPub = [c \in Cameras |-> 0]
    /\ lastRead = [c \in Cameras |-> "-"]
    /\ toRun = [c \in Cameras |-> 0]
    /\ toAll = [c \in Cameras |-> 0]
    /\ reports = [c \in Cameras |-> 0]
    /\ sent = [c \in Cameras |-> 0]
    /\ notified = [c \in Cameras |-> 0]
    /\ hitRun = [c \in Cameras |-> 0]
    /\ sentAt = [c \in Cameras |-> 0]

Init ==
    /\ ProgramInit(Configs)
    /\ pfn = "idle"
    /\ pargs = << >>
    /\ pres = FALSE

(* ---------------- BufferlessVideoCapture.__init__ ---------------------- *)
\* lines 27-31: open the capture, create the queue, start the reader thread
CtorStart(c) ==
    /\ mpc = "ctor_start" /\ cur = c
    /\ rpc' = [rpc EXCEPT ![c] = "decode"]
    /\ mpc' = "ctor_finish"
    /\ UNCHANGED << config, pureVars, q, _stop, frame, released, sessVars, cur,
                    loop_iteration_counter, now, obsVars >>

\* CtorFinish with last_detection_dt starting at the time of construction
CtorFinish_StampNow(c) ==
    /\ mpc = "ctor_finish" /\ cur = c
    /\ _stop' = [_stop EXCEPT ![c] = "false"]
    /\ last_detection_dt' = [last_detection_dt EXCEPT ![c] = now]
    /\ detections_in_a_row' = [detections_in_a_row EXCEPT ![c] = 0]
    /\ queue_timeouts_counter' = [queue_timeouts_counter EXCEPT ![c] = 0]
    /\ IF c < NumCameras
          THEN mpc' = "ctor_start" /\ cur' = c + 1
          ELSE mpc' = "frame_size" /\ cur' = 1
    /\ UNCHANGED << config, pureVars, q, rpc, frame, released,
                    loop_iteration_counter, now, obsVars >>

\* lines 32-39: the attributes assigned after the thread has started;
\* setup_cameras then goes on to the next camera section
CtorFinish(c) ==
    /\ mpc = "ctor_finish" /\ cur = c
    /\ _stop' = [_stop EXCEPT ![c] = "false"]
    /\ last_detection_dt' = [last_detection_dt EXCEPT ![c] = Year2000]
    /\ detections_in_a_row' = [detections_in_a_row EXCEPT ![c] = 0]
    /\ queue_timeouts_counter' = [queue_timeouts_counter EXCEPT ![c] = 0]
    /\ IF c < NumCameras
          THEN mpc' = "ctor_start" /\ cur' = c + 1
          ELSE mpc' = "frame_size" /\ cur' = 1
    /\ UNCHANGED << config, pureVars, q, rpc, frame, released,
                    loop_iteration_counter, now, obsVars >>

(* ---------------- BufferlessVideoCapture._reader ----------------------- *)
\* the number of frames the source opened at line 27 can deliver: a video
\* file ends, a camera section without the field is a live stream
StreamLength(c) ==
    IF "frames" \in DOMAIN config.cameras[c]
       THEN config.cameras[c].frames
       ELSE MaxFrames

\* ReaderDecode without the test of ret: the frame of a failed read goes on
\* to be published
ReaderDecode_PublishFailed(c) ==
    /\ rpc[c] = "decode"
    /\ \E ret \in BOOLEAN :
          IF ret
             THEN /\ frame[c] < MaxFrames
                  /\ frame[c] < StreamLength(c)
                  /\ frame' = [frame EXCEPT ![c] = @ + 1]
                  /\ rpc' = [rpc EXCEPT ![c] = "empty"]
             ELSE /\ rpc' = [rpc EXCEPT ![c] = "empty"]
                  /\ frame' = frame
    /\ UNCHANGED << config, pureVars, q, _stop, released, sessVars, mainVars, obsVars >>

\* line 58-60: ret, frame = self.cap.read(); if not ret: break
ReaderDecode(c) ==
    /\ rpc[c] = "decode"
    /\ \E ret \in BOOLEAN :
          IF ret
             THEN /\ frame[c] < MaxFrames
                  /\ frame[c] < StreamLength(c)
                  /\ frame' = [frame EXCEPT ![c] = @ + 1]
                  /\ rpc' = [rpc EXCEPT ![c] = "empty"]
             ELSE /\ rpc' = [rpc EXCEPT ![c] = "stopped"]
                  /\ frame' = frame
    /\ UNCHANGED << config, pureVars, q, _stop, released, sessVars, mainVars, obsVars >>

\* line 61: if not self.q.empty()
ReaderEmpty(c) ==
    /\ rpc[c] = "empty"
    /\ rpc' = [rpc EXCEPT ![c] = IF q[c] # << >> THEN "get" ELSE "put"]
    /\ UNCHANGED << config, pureVars, q, _stop, frame, released, sessVars, mainVars,
                    obsVars >>

\* GetNowait with the removal left out: the pending frame stays queued
GetNowait_Keep(s) == s

\* the queue after get_nowait; queue.Empty is caught and ignored
GetNowait(s) == IF s # << >> THEN Tail(s) ELSE s

\* ReaderGet with the blocking q.get() in place of get_nowait()
ReaderGet_Blocking(c) ==
    /\ rpc[c] = "get"
    /\ q[c] # << >>
    /\ q' = [q EXCEPT ![c] = Tail(@)]
    /\ rpc' = [rpc EXCEPT ![c] = "put"]
    /\ UNCHANGED << config, pureVars, _stop, frame, released, sessVars, mainVars,
                    obsVars >>

\* lines 62-65: self.q.get_nowait()
ReaderGet(c) ==
    /\ rpc[c] = "get"
    /\ q' = [q EXCEPT ![c] = GetNowait(@)]
    /\ rpc' = [rpc EXCEPT ![c] = "put"]
    /\ UNCHANGED << config, pureVars, _stop, frame, released, sessVars, mainVars,
                    obsVars >>

\* line 66: self.q.put(frame)
ReaderPut(c) ==
    /\ rpc[c] = "put"
    /\ q' = [q EXCEPT ![c] = Append(@, frame[c])]
    /\ published' = [published EXCEPT ![c] = frame[c]]
    /\ rpc' = [rpc EXCEPT ![c] = "stopchk"]
    /\ UNCHANGED << config, pureVars, _stop, frame, released, sessVars, mainVars,
                    delivered, callPub, lastRead, toRun, toAll, reports,
                    sent, notified, hitRun, sentAt >>

\* ReaderStopCheck that never sees the flag set
ReaderStopCheck_Deaf(c) ==
    /\ rpc[c] = "stopchk"
    /\ rpc' = [rpc EXCEPT ![c] = CASE _stop[c] = "unset" -> "crashed"
                                   [] OTHER -> "decode"]
    /\ UNCHANGED << config, pureVars, q, _stop, frame, released, sessVars, mainVars,
                    obsVars >>

\* lines 69-70: if self._stop: break.  Reading the attribute before the
\* constructor has assigned it raises AttributeError and ends the thread.
ReaderStopCheck(c) ==
    /\ rpc[c] = "stopchk"
    /\ rpc' = [rpc EXCEPT ![c] = CASE _stop[c] = "unset" -> "crashed"
                                   [] _stop[c] = "true" -> "stopped"
                                   [] OTHER -> "decode"]
    /\ UNCHANGED << config, pureVars, q, _stop, frame, released, sessVars, mainVars,
                    obsVars >>

(* ---------------- BufferlessVideoCapture.read -------------------------- *)
\* main() is inside camera c's read(): calculate_frame_size's call or the
\* loop's call
InRead(c) == cur = c /\ mpc \in {"fs_wait", "wait"}

\* line 80: the call of self.q.get(timeout=0.75)
ReadCall(c) ==
    /\ cur = c /\ mpc \in {"frame_size", "read"}
    /\ mpc' = IF mpc = "frame_size" THEN "fs_wait" ELSE "wait"
    /\ callPub' = [callPub EXCEPT ![c] = published[c]]
    /\ lastRead' = [lastRead EXCEPT ![c] = "-"]
    /\ UNCHANGED << config, pureVars, camVars, sessVars, cur, loop_iteration_counter,
                    now, published, delivered, toRun, toAll, reports,
                    sent, notified, hitRun, sentAt >>

\* ReadTake that returns the oldest frame and leaves it in the queue
ReadTake_Peek(c) ==
    /\ InRead(c)
    /\ q[c] # << >>
    /\ q' = q
    /\ delivered' = [delivered EXCEPT ![c] = Append(@, Head(q[c]))]
    /\ lastRead' = [lastRead EXCEPT ![c] = "frame"]
    /\ toRun' = [toRun EXCEPT ![c] = 0]
    /\ toAll' = toAll
    /\ mpc' = IF mpc = "fs_wait" THEN "loop_head" ELSE "process"
    /\ UNCHANGED << config, pureVars, _stop, rpc, frame, released, sessVars, cur,
                    loop_iteration_counter, now, published, callPub, reports,
                    sent, notified, hitRun, sentAt >>

\* ReadTake that sets queue_timeouts_counter back to 0 on a successful read
ReadTake_ResetCounter(c) ==
    /\ InRead(c)
    /\ q[c] # << >>
    /\ q' = [q EXCEPT ![c] = Tail(@)]
    /\ delivered' = [delivered EXCEPT ![c] = Append(@, Head(q[c]))]
    /\ lastRead' = [lastRead EXCEPT ![c] = "frame"]
    /\ toRun' = [toRun EXCEPT ![c] = 0]
    /\ toAll' = toAll
    /\ mpc' = IF mpc = "fs_wait" THEN "loop_head" ELSE "process"
    /\ queue_timeouts_counter' = [queue_timeouts_counter EXCEPT ![c] = 0]
    /\ UNCHANGED << config, pureVars, _stop, rpc, frame, released,
                    detections_in_a_row, last_detection_dt, cur,
                    loop_iteration_counter, now, published, callPub, reports,
                    sent, notified, hitRun, sentAt >>

\* lines 80, 85: the queue hands over its oldest frame and read returns it
ReadTake(c) ==
    /\ InRead(c)
    /\ q[c] # << >>
    /\ q' = [q EXCEPT ![c] = Tail(@)]
    /\ delivered' = [delivered EXCEPT ![c] = Append(@, Head(q[c]))]
    /\ lastRead' = [lastRead EXCEPT ![c] = "frame"]
    /\ toRun' = [toRun EXCEPT ![c] = 0]
    /\ toAll' = toAll
    /\ mpc' = IF mpc = "fs_wait" THEN "loop_head" ELSE "process"
    /\ UNCHANGED << config, pureVars, _stop, rpc, frame, released, sessVars, cur,
                    loop_iteration_counter, now, published, callPub, reports,
                    sent, notified, hitRun, sentAt >>

\* ReadTimeout that also treats the missing frame as a frame without
\* detections and zeroes the streak
ReadTimeout_ZeroStreak(c) ==
    /\ InRead(c)
    /\ q[c] = << >>
    /\ queue_timeouts_counter' = [queue_timeouts_counter EXCEPT ![c] = @ + 1]
    /\ detections_in_a_row' = [detections_in_a_row EXCEPT ![c] = 0]
    /\ lastRead' = [lastRead EXCEPT ![c] = "none"]
    /\ toRun' = [toRun EXCEPT ![c] = @ + 1]
    /\ toAll' = [toAll EXCEPT ![c] = @ + 1]
    /\ mpc' = IF mpc = "fs_wait" THEN "crashed" ELSE "failcheck"
    /\ UNCHANGED << config, pureVars, camVars, last_detection_dt,
                    cur, loop_iteration_counter, now, published, delivered,
                    callPub, reports, sent, notified, hitRun, sentAt >>

\* lines 81-83: queue.Empty after the timeout; read returns None.
\* calculate_frame_size (setup_cleanup.py:113-115) then takes frame.shape of
\* None and main() ends with AttributeError; the loop goes to the failure
\* check (main.py:50-52).
ReadTimeout(c) ==
    /\ InRead(c)
    /\ q[c] = << >>
    /\ queue_timeouts_counter' = [queue_timeouts_counter EXCEPT ![c] = @ + 1]
    /\ lastRead' = [lastRead EXCEPT ![c] = "none"]
    /\ toRun' = [toRun EXCEPT ![c] = @ + 1]
    /\ toAll' = [toAll EXCEPT ![c] = @ + 1]
    /\ mpc' = IF mpc = "fs_wait" THEN "crashed" ELSE "failcheck"
    /\ UNCHANGED << config, pureVars, camVars, detections_in_a_row, last_detection_dt,
                    cur, loop_iteration_counter, now, published, delivered,
                    callPub, reports, sent, notified, hitRun, sentAt >>

(* ---------------- BufferlessVideoCapture.stop_reader, __del__ ---------- *)
\* cleanup_cameras (setup_cleanup.py:94-98): stop_reader on every camera,
\* then the grace period and the return of main()
StopReader(c) ==
    /\ mpc = "cleanup" /\ cur = c
    /\ _stop' = [_stop EXCEPT ![c] = "true"]
    /\ IF c < NumCameras
          THEN mpc' = mpc /\ cur' = c + 1
          ELSE mpc' = "done" /\ cur' = cur
    /\ UNCHANGED << config, pureVars, q, rpc, frame, released, sessVars,
                    loop_iteration_counter, now, obsVars >>

\* lines 41-45: the object is collected once nothing refers to it: main()
\* has ended (camera_vc_list is its local) and the reader thread, whose
\* target is a bound method of the object, has ended
Del(c) ==
    /\ mpc \in {"done", "crashed"}
    /\ rpc[c] \in {"stopped", "crashed"}
    /\ released[c] = 0
    /\ released' = [released EXCEPT ![c] = @ + 1]
    /\ UNCHANGED << config, pureVars, q, _stop, rpc, frame, sessVars, mainVars,
                    obsVars >>

(* ---------------- utils/cv_utils.py: zone containment ------------------ *)
\* frame size the model resizes frames to (calculate_frame_size), in pixels
frame_width == 100
frame_height == 100
\* half pixels per pixel
HalfPx == 2

\* a half-pixel coordinate of a whole number of pixels
Px(p) == p * HalfPx

\* midpoint_bottom with the smaller of the two vertical bounds
midpoint_bottom_Min(x1, y1, x2, y2) ==
    << ((x1 + x2) * HalfPx) \div 2, Px(IF y1 < y2 THEN y1 ELSE y2) >>

\* midpoint_bottom(x1, y1, x2, y2) = ((x1 + x2) / 2, max(y1, y2)) of integer
\* pixel coordinates, in half pixels
midpoint_bottom(x1, y1, x2, y2) ==
    << ((x1 + x2) * HalfPx) \div 2, Px(IF y1 > y2 THEN y1 ELSE y2) >>

\* is_point_in_rectangle with the edges included
is_point_in_rectangle_Closed(point, rectangle) ==
    /\ rectangle[1] <= point[1] /\ point[1] <= rectangle[3]
    /\ rectangle[2] <= point[2] /\ point[2] <= rectangle[4]

\* is_point_in_rectangle: x1 < x < x2 and y1 < y < y2
is_point_in_rectangle(point, rectangle) ==
    /\ rectangle[1] < point[1] /\ point[1] < rectangle[3]
    /\ rectangle[2] < point[2] /\ point[2] < rectangle[4]

\* main.py:78: a zone of fractions (in tenths) scaled to the frame, in half
\* pixels; the products are exact for the frame sizes of the model
rectangle_coordinates(zone, width, height) ==
    << (zone[1] * Px(width)) \div 10, (zone[2] * Px(height)) \div 10,
       (zone[3] * Px(width)) \div 10, (zone[4] * Px(height)) \div 10 >>

\* main.py:76-81: no zone of the camera contains the box's anchor point
object_not_in_zones(coordinates, zones, width, height) ==
    \A i \in DOMAIN zones :
        ~ is_point_in_rectangle(
              midpoint_bottom(coordinates[1], coordinates[2],
                              coordinates[3], coordinates[4]),
              rectangle_coordinates(zones[i], width, height))

\* main.py:64-85: a box of a desired class above the confidence threshold
\* (box.qual) that is in no zone
any_detection(boxes, zones, width, height) ==
    \E i \in DOMAIN boxes :
        /\ boxes[i].qual
        /\ object_not_in_zones(boxes[i].xyxy, zones, width, height)

(* ---------------- utils/telegram_bot.py -------------------------------- *)
\* send_frame_condition with the interval compared by >=
send_frame_condition_AtLeast(time_diff, streak, cfg) ==
    IF time_diff >= cfg.bot_frame_timeout
       /\ streak >= cfg.min_detections_in_a_row
    THEN TRUE ELSE FALSE

\* send_frame_condition, lines 23-27
send_frame_condition(time_diff, streak, cfg) ==
    IF time_diff > cfg.bot_frame_timeout
       /\ streak >= cfg.min_detections_in_a_row
    THEN TRUE ELSE FALSE

\* the failure condition with the counter compared by >=
failure_condition_AtLeast(counter, cfg, verbose_level) ==
    /\ counter >= cfg.timeout_count_before_message
    /\ cfg.runtime_verbose_level >= verbose_level

\* the condition of check_and_report_camera_failure, line 75
failure_condition(counter, cfg, verbose_level) ==
    /\ counter = cfg.timeout_count_before_message
    /\ cfg.runtime_verbose_level >= verbose_level

(* ---------------- main.py: the surveillance loop ----------------------- *)
\* the boxes model.predict can return for a frame
BoxCoordinates ==
    { <<40, 80, 60, 95>>,      \* anchor (50, 95)
      <<0, 0, 10, 5>>,         \* anchor (5, 5)
      <<40, 30, 61, 50>> }     \* anchor (50.5, 50)
Boxes == [qual : BOOLEAN, xyxy : BoxCoordinates]
RECURSIVE SeqsUpTo(_, _)
SeqsUpTo(S, n) ==
    IF n = 0 THEN { << >> }
    ELSE LET shorter == SeqsUpTo(S, n - 1)
         IN  shorter \cup { Append(s, x) : s \in shorter, x \in S }
Results == SeqsUpTo(Boxes, MaxBoxes)

\* what the for loop of line 48 does next, after camera c
NextCamera(c) ==
    IF c < NumCameras
       THEN mpc' = "read" /\ cur' = c + 1
       ELSE mpc' = "loop_head" /\ cur' = 1

\* lines 42-45: the loop condition, the delay and the iteration counter
LoopIterate ==
    /\ mpc = "loop_head"
    /\ loop_iteration_counter < MaxIter
    /\ \E d \in 0..1 :
          /\ now + d <= MaxTime
          /\ now' = now + d
    /\ loop_iteration_counter' = loop_iteration_counter + 1
    /\ mpc' = "read" /\ cur' = 1
    /\ UNCHANGED << config, pureVars, camVars, sessVars, obsVars >>

\* line 42 false (the overwatch time is over), lines 107-109
LoopExit ==
    /\ mpc = "loop_head"
    /\ mpc' = "cleanup" /\ cur' = 1
    /\ UNCHANGED << config, pureVars, camVars, sessVars, loop_iteration_counter, now,
                    obsVars >>

\* lines 50-53: frame is None: report the failure if due, then continue
FailureCheck(c) ==
    /\ mpc = "failcheck" /\ cur = c
    /\ reports' = [reports EXCEPT ![c] =
          IF failure_condition(queue_timeouts_counter[c], config,
                               FailureVerboseLevel)
             THEN @ + 1 ELSE @]
    /\ NextCamera(c)
    /\ UNCHANGED << config, pureVars, camVars, sessVars, loop_iteration_counter, now,
                    published, delivered, callPub, lastRead, toRun, toAll,
                    sent, notified, hitRun, sentAt >>

\* observation: a box counts for the streak: its class and confidence qualify and its
\* anchor, ((x1 + x2) / 2, max(y1, y2)), is strictly inside no zone of the
\* camera (zone fractions are tenths of the frame size; both sides of each
\* comparison are multiplied by 20)
Counted(box, zones) ==
    /\ box.qual
    /\ \A i \in DOMAIN zones :
          LET ax == 10 * (box.xyxy[1] + box.xyxy[3])
              ay == 20 * (IF box.xyxy[2] >= box.xyxy[4]
                             THEN box.xyxy[2] ELSE box.xyxy[4])
          IN  ~ ( /\ 2 * zones[i][1] * frame_width < ax
                  /\ ax < 2 * zones[i][3] * frame_width
                  /\ 2 * zones[i][2] * frame_height < ay
                  /\ ay < 2 * zones[i][4] * frame_height )

CountedFrame(boxes, c) ==
    \E i \in DOMAIN boxes : Counted(boxes[i], config.cameras[c].zones)

\* Process that starts the streak again once the notification has gone out
Process_ResetOnSend(c, boxes) ==
    /\ mpc = "process" /\ cur = c
    /\ IF any_detection(boxes, config.cameras[c].zones, frame_width,
                        frame_height)
          THEN LET time_diff == now - last_detection_dt[c]
                   streak == detections_in_a_row[c] + 1
               IN  IF send_frame_condition(time_diff, streak, config)
                      THEN /\ detections_in_a_row' =
                                 [detections_in_a_row EXCEPT ![c] = 0]
                           /\ notified' = [notified EXCEPT ![c] = @ + 1]
                           /\ sent' = [sent EXCEPT ![c] =
                                 IF config.runtime_verbose_level
                                       >= FrameVerboseLevel
                                    THEN @ + 1 ELSE @]
                           /\ \E d \in 0..1 :
                                 /\ now + d <= MaxTime
                                 /\ now' = now + d
                                 /\ last_detection_dt' =
                                      [last_detection_dt EXCEPT
                                          ![c] = now + d]
                      ELSE /\ detections_in_a_row' =
                                 [detections_in_a_row EXCEPT ![c] = streak]
                           /\ UNCHANGED << sent, notified, now,
                                           last_detection_dt >>
          ELSE /\ detections_in_a_row' =
                     [detections_in_a_row EXCEPT ![c] = 0]
               /\ UNCHANGED << sent, notified, now, last_detection_dt >>
    /\ hitRun' = [hitRun EXCEPT ![c] =
          IF CountedFrame(boxes, c) THEN @ + 1 ELSE 0]
    /\ \E t \in now..now' :
          sentAt' = [sentAt EXCEPT ![c] =
                        IF notified'[c] # notified[c] THEN t ELSE @]
    /\ NextCamera(c)
    /\ UNCHANGED << config, pureVars, camVars, queue_timeouts_counter,
                    loop_iteration_counter, published, delivered, callPub,
                    lastRead, toRun, toAll, reports >>

\* Process that sets last_detection_dt on every frame with a detection,
\* notified or not
Process_StampOnDetection(c, boxes) ==
    /\ mpc = "process" /\ cur = c
    /\ IF any_detection(boxes, config.cameras[c].zones, frame_width,
                        frame_height)
          THEN LET time_diff == now - last_detection_dt[c]
                   streak == detections_in_a_row[c] + 1
               IN  /\ detections_in_a_row' =
                          [detections_in_a_row EXCEPT ![c] = streak]
                   /\ IF send_frame_condition(time_diff, streak, config)
                         THEN /\ notified' = [notified EXCEPT ![c] = @ + 1]
                              /\ sent' = [sent EXCEPT ![c] =
                                    IF config.runtime_verbose_level
                                          >= FrameVerboseLevel
                                       THEN @ + 1 ELSE @]
                         ELSE UNCHANGED << sent, notified >>
                   /\ \E d \in 0..1 :
                         /\ now + d <= MaxTime
                         /\ now' = now + d
                         /\ last_detection_dt' =
                              [last_detection_dt EXCEPT ![c] = now + d]
          ELSE /\ detections_in_a_row' =
                     [detections_in_a_row EXCEPT ![c] = 0]
               /\ UNCHANGED << sent, notified, now, last_detection_dt >>
    /\ hitRun' = [hitRun EXCEPT ![c] =
          IF CountedFrame(boxes, c) THEN @ + 1 ELSE 0]
    /\ \E t \in now..now' :
          sentAt' = [sentAt EXCEPT ![c] =
                        IF notified'[c] # notified[c] THEN t ELSE @]
    /\ NextCamera(c)
    /\ UNCHANGED << config, pureVars, camVars, queue_timeouts_counter,
                    loop_iteration_counter, published, delivered, callPub,
                    lastRead, toRun, toAll, reports >>

\* Process that leaves last_detection_dt as it is after the notification
Process_NoStamp(c, boxes) ==
    /\ mpc = "process" /\ cur = c
    /\ IF any_detection(boxes, config.cameras[c].zones, frame_width,
                        frame_height)
          THEN LET time_diff == now - last_detection_dt[c]
                   streak == detections_in_a_row[c] + 1
               IN  /\ detections_in_a_row' =
                          [detections_in_a_row EXCEPT ![c] = streak]
                   /\ IF send_frame_condition(time_diff, streak, config)
                         THEN /\ notified' = [notified EXCEPT ![c] = @ + 1]
                              /\ sent' = [sent EXCEPT ![c] =
                                    IF config.runtime_verbose_level
                                          >= FrameVerboseLevel
                                       THEN @ + 1 ELSE @]
                              /\ \E d \in 0..1 :
                                    /\ now + d <= MaxTime
                                    /\ now' = now + d
                              /\ last_detection_dt' = last_detection_dt
                         ELSE UNCHANGED << sent, notified, now,
                                           last_detection_dt >>
          ELSE /\ detections_in_a_row' =
                     [detections_in_a_row EXCEPT ![c] = 0]
               /\ UNCHANGED << sent, notified, now, last_detection_dt >>
    /\ hitRun' = [hitRun EXCEPT ![c] =
          IF CountedFrame(boxes, c) THEN @ + 1 ELSE 0]
    /\ \E t \in now..now' :
          sentAt' = [sentAt EXCEPT ![c] =
                        IF notified'[c] # notified[c] THEN t ELSE @]
    /\ NextCamera(c)
    /\ UNCHANGED << config, pureVars, camVars, queue_timeouts_counter,
                    loop_iteration_counter, published, delivered, callPub,
                    lastRead, toRun, toAll, reports >>

\* lines 54-104: detection on the frame read, the streak, the notification
Process(c, boxes) ==
    /\ mpc = "process" /\ cur = c
    /\ IF any_detection(boxes, config.cameras[c].zones, frame_width,
                        frame_height)
          THEN LET time_diff == now - last_detection_dt[c]
                   streak == detections_in_a_row[c] + 1
               IN  /\ detections_in_a_row' =
                          [detections_in_a_row EXCEPT ![c] = streak]
                   /\ IF send_frame_condition(time_diff, streak, config)
                         THEN /\ notified' = [notified EXCEPT ![c] = @ + 1]
                              /\ sent' = [sent EXCEPT ![c] =
                                    IF config.runtime_verbose_level
                                          >= FrameVerboseLevel
                                       THEN @ + 1 ELSE @]
                              /\ \E d \in 0..1 :
                                    /\ now + d <= MaxTime
                                    /\ now' = now + d
                                    /\ last_detection_dt' =
                                         [last_detection_dt EXCEPT
                                             ![c] = now + d]
                         ELSE UNCHANGED << sent, notified, now, last_detection_dt >>
          ELSE /\ detections_in_a_row' =
                     [detections_in_a_row EXCEPT ![c] = 0]
               /\ UNCHANGED << sent, notified, now, last_detection_dt >>
    /\ hitRun' = [hitRun EXCEPT ![c] =
          IF CountedFrame(boxes, c) THEN @ + 1 ELSE 0]
    /\ \E t \in now..now' :
          sentAt' = [sentAt EXCEPT ![c] =
                        IF notified'[c] # notified[c] THEN t ELSE @]
    /\ NextCamera(c)
    /\ UNCHANGED << config, pureVars, camVars, queue_timeouts_counter,
                    loop_iteration_counter, published, delivered, callPub,
                    lastRead, toRun, toAll, reports >>

Next ==
    \/ \E c \in Cameras : CtorStart(c)
    \/ \E c \in Cameras : CtorFinish(c)
    \/ \E c \in Cameras : ReaderDecode(c)
    \/ \E c \in Cameras : ReaderEmpty(c)
    \/ \E c \in Cameras : ReaderGet(c)
    \/ \E c \in Cameras : ReaderPut(c)
    \/ \E c \in Cameras : ReaderStopCheck(c)
    \/ \E c \in Cameras : ReadCall(c)
    \/ \E c \in Cameras : ReadTake(c)
    \/ \E c \in Cameras : ReadTimeout(c)
    \/ LoopIterate
    \/ LoopExit
    \/ \E c \in Cameras : FailureCheck(c)
    \/ \E c \in Cameras : \E boxes \in Results : Process(c, boxes)
    \/ \E c \in Cameras : StopReader(c)
    \/ \E c \in Cameras : Del(c)

Spec == Init /\ [][Next]_vars

(* ---------------- single calls of the pure functions ------------------- *)
MaxCoord == 3        \* largest coordinate of a point or rectangle corner
MaxElapsed == 3      \* largest time_diff, in seconds
MaxStreak == 3       \* largest detections_in_a_row

\* configurations for a call of send_frame_condition
PureConfigs ==
    [timeout_count_before_message : {1}, runtime_verbose_level : {1},
     min_detections_in_a_row : 0..MaxStreak,
     bot_frame_timeout : 0..MaxElapsed,
     cameras : { << ZonedCamera >> }]

\* boxes whose anchor points lie in, on the edge of and outside the zone
PureBoxes ==
    { <<x1, y1, x2, y2>> : x1 \in {0, 10, 40}, x2 \in {10, 60, 140},
                           y1 \in {0, 80, 90}, y2 \in {5, 10, 85, 95} }

\* the arguments a call can have:
\*   send_frame_condition    <<time_diff, detections_in_a_row>>
\*   is_point_in_rectangle   <<x, y, x1, y1, x2, y2>>
\*   the zone test of main.py:75-85 for one box   <<x1, y1, x2, y2>>
PureArgs(fn) ==
    CASE fn = "send_frame_condition" -> (0..MaxElapsed) \X (0..MaxStreak)
      [] fn = "is_point_in_rectangle" ->
            { <<x, y, x1, y1, x2, y2>> :
                 x \in 0..MaxCoord, y \in 0..MaxCoord, x1 \in 0..MaxCoord,
                 y1 \in 0..MaxCoord, x2 \in 0..MaxCoord, y2 \in 0..MaxCoord }
      [] fn = "zone_test" -> PureBoxes

PureInit ==
    /\ ProgramInit(PureConfigs)
    /\ pfn \in {"send_frame_condition", "is_point_in_rectangle", "zone_test"}
    /\ pargs \in PureArgs(pfn)
    /\ pres = FALSE

programVars == << config, camVars, sessVars, mainVars, obsVars >>

\* telegram_bot.py:11-27 called with time_diff and the camera's streak
CallSendFrameCondition ==
    /\ pfn = "send_frame_condition"
    /\ pres' = send_frame_condition(pargs[1], pargs[2], config)
    /\ pfn' = "send_frame_condition returned"
    /\ UNCHANGED << programVars, pargs >>

\* cv_utils.py:67-80 called with a point and a rectangle
CallIsPointInRectangle ==
    /\ pfn = "is_point_in_rectangle"
    /\ pres' = is_point_in_rectangle(<< pargs[1], pargs[2] >>,
                                     << pargs[3], pargs[4], pargs[5], pargs[6] >>)
    /\ pfn' = "is_point_in_rectangle returned"
    /\ UNCHANGED << programVars, pargs >>

\* main.py:75-85 for one box of the first camera: the result is whether the
\* detection is dropped
CallZoneTest ==
    /\ pfn = "zone_test"
    /\ pres' = ~ object_not_in_zones(pargs, config.cameras[1].zones,
                                     frame_width, frame_height)
    /\ pfn' = "zone_test returned"
    /\ UNCHANGED << programVars, pargs >>

PureNext ==
    \/ CallSendFrameCondition
    \/ CallIsPointInRectangle
    \/ CallZoneTest

SpecPure == PureInit /\ [][PureNext]_vars

(* ---------------- two camera sections ---------------------------------- *)
\* a configuration file with two Camera_ sections whose sources are short
\* video files
TwoCameraConfigs ==
    { [timeout_count_before_message |-> 1, runtime_verbose_level |-> 2,
       min_detections_in_a_row |-> 1, bot_frame_timeout |-> 1,
       cameras |-> << [zones |-> ZonedCamera.zones, frames |-> 2],
                      [zones |-> OpenCamera.zones, frames |-> 1] >>] }

InitTwoCameras ==
    /\ ProgramInit(TwoCameraConfigs)
    /\ pfn = "idle"
    /\ pargs = << >>
    /\ pres = FALSE

SpecTwoCameras == InitTwoCameras /\ [][Next]_vars

(* ---------------- malformed zones -------------------------------------- *)
\* a configuration file whose camera section has a zone with left > right
\* and a zone that reaches beyond the frame (1.2): ast.literal_eval at
\* setup_cameras line 75 takes both
MalformedZoneConfigs ==
    { [timeout_count_before_message |-> 1, runtime_verbose_level |-> 2,
       min_detections_in_a_row |-> 1, bot_frame_timeout |-> 1,
       cameras |-> << [zones |-> << <<9, 1, 1, 9>>, <<1, 1, 12, 9>> >>] >>] }

InitMalformedZones ==
    /\ ProgramInit(MalformedZoneConfigs)
    /\ pfn = "idle"
    /\ pargs = << >>
    /\ pres = FALSE

SpecMalformedZones == InitMalformedZones /\ [][Next]_vars

(* ---------------- scheduling ------------------------------------------- *)
MaxCameras == 2      \* camera sections a configuration can have
CameraIds == 1..MaxCameras

\* the steps of lines 61-70: they call nothing that waits for another thread
\* (the queue is unbounded and get_nowait does not wait), so a running
\* reader thread takes them
ReaderPublish(c) ==
    IF c \in Cameras
    THEN ReaderEmpty(c) \/ ReaderGet(c) \/ ReaderPut(c) \/ ReaderStopCheck(c)
    ELSE FALSE

\* the steps of the reader thread when cap.read() (line 58) returns
ReaderStep(c) ==
    IF c \in Cameras
    THEN ReaderDecode(c) \/ ReaderEmpty(c) \/ ReaderGet(c) \/ ReaderPut(c)
            \/ ReaderStopCheck(c)
    ELSE FALSE

\* the configuration file of the runs with a scheduling assumption: the
\* reader thread's code reads nothing of it
FairConfigs ==
    { [timeout_count_before_message |-> 1, runtime_verbose_level |-> 2,
       min_detections_in_a_row |-> 1, bot_frame_timeout |-> 1,
       cameras |-> << ZonedCamera >>] }

InitFair ==
    /\ ProgramInit(FairConfigs)
    /\ pfn = "idle"
    /\ pargs = << >>
    /\ pres = FALSE

\* the reader threads run; nothing is assumed of cap.read() or of main()
SpecPublishFair ==
    InitFair /\ [][Next]_vars /\ \A c \in CameraIds : WF_vars(ReaderPublish(c))

\* the reader threads run and every cap.read() returns; nothing is assumed
\* of main()
SpecReaderFair ==
    InitFair /\ [][Next]_vars /\ \A c \in CameraIds : WF_vars(ReaderStep(c))

(* ======================= properties ==================================== *)
Last(s) == s[Len(s)]
Consumed(c, f) == \E i \in DOMAIN delivered[c] : delivered[c][i] = f

\* C1: a read() returns "no frame" only if nothing was published before the
\* call or the frames published before it were already consumed, and a frame
\* it returns is never older than the latest publish completed before the call.
C1_ReadLatestOrNoFrame ==
    \A c \in Cameras :
        /\ lastRead[c] = "none" =>
              (callPub[c] = 0 \/ Consumed(c, callPub[c]))
        /\ lastRead[c] = "frame" => Last(delivered[c]) >= callPub[c]

\* C1, the part about frames returned alone: a frame read() returns is never
\* older than the latest publish completed before the call
C1_FrameNeverOlder ==
    \A c \in Cameras :
        lastRead[c] = "frame" => Last(delivered[c]) >= callPub[c]

\* C2: the queue holds at most one frame, and a frame it holds is the one of
\* the latest publish.
C2_AtMostOnePending ==
    \A c \in Cameras :
        /\ Len(q[c]) <= 1
        /\ q[c] # << >> => q[c][1] = published[c]

\* C2 witness: a second publish has replaced a frame nobody consumed
C2_ReplacedUnconsumed ==
    \E c \in Cameras :
        /\ published[c] >= 2
        /\ delivered[c] = << >>
        /\ q[c] = << published[c] >>

\* C3: once stop_reader() has returned, no frame is published any more.
C3_NoPublishAfterStop ==
    [][\A c \in Cameras : _stop[c] = "true" => published'[c] = published[c]]_vars

\* C4: a reader that has reached Stopped has released the video source, and
\* the source is released exactly once.
C4_ReleasedOnStopped ==
    \A c \in Cameras : rpc[c] = "stopped" => released[c] = 1

\* C5: a read() that returns a frame leaves queue_timeouts_counter at 0, and
\* the counter is the number of timed-out reads since the last successful read.
C5_CounterResetOnSuccess ==
    \A c \in Cameras :
        /\ lastRead[c] = "frame" => queue_timeouts_counter[c] = 0
        /\ queue_timeouts_counter[c] = toRun[c]

\* C6: a read() that times out returns None, adds exactly 1 to
\* queue_timeouts_counter and leaves the queue, the streak and the time of
\* the last notification as they were; in the loop, main() goes to the
\* failure check and from there to the next camera without processing.
C6_TimeoutIsSkipped ==
    [][\A c \in Cameras :
          /\ (lastRead[c] = "-" /\ lastRead'[c] = "none") =>
                /\ queue_timeouts_counter'[c] = queue_timeouts_counter[c] + 1
                /\ q'[c] = q[c]
                /\ detections_in_a_row'[c] = detections_in_a_row[c]
                /\ last_detection_dt'[c] = last_detection_dt[c]
                /\ mpc = "wait" => mpc' = "failcheck"
          /\ (mpc = "failcheck" /\ cur = c /\ mpc' # mpc) =>
                /\ mpc' \in {"read", "loop_head"}
                /\ detections_in_a_row'[c] = detections_in_a_row[c]
                /\ last_detection_dt'[c] = last_detection_dt[c]
                /\ sent'[c] = sent[c]
                /\ q'[c] = q[c]]_vars

\* C6 witness: a read() of the loop has timed out on a camera with a streak
C6_TimedOutInLoop ==
    \E c \in Cameras :
        /\ lastRead[c] = "none"
        /\ mpc = "failcheck" /\ cur = c
        /\ detections_in_a_row[c] > 0

\* C7: when failure messages are permitted and all timed-out reads the main
\* loop has made on a session so far were consecutive, one failure report
\* has been sent if they are at least timeout_count_before_message, and none
\* otherwise.  (A timeout of calculate_frame_size's read ends main() before
\* the loop: mpc = "crashed".)
C7_OneReportAtThreshold ==
    \A c \in Cameras :
        ( /\ config.runtime_verbose_level >= FailureVerboseLevel
          /\ mpc # "crashed"
          /\ toAll[c] = toRun[c]
          /\ ~ (mpc = "failcheck" /\ cur = c) )
        => reports[c] =
              IF toRun[c] >= config.timeout_count_before_message
                 THEN 1 ELSE 0

\* C7 witness: one more consecutive timeout than the threshold, checked
C7_PastThreshold ==
    \E c \in Cameras :
        /\ config.runtime_verbose_level >= FailureVerboseLevel
        /\ toAll[c] = toRun[c]
        /\ toRun[c] = config.timeout_count_before_message + 1
        /\ mpc # "failcheck"
        /\ reports[c] = 1

\* C8: send_frame_condition is true iff detections_in_a_row >= the minimum
\* streak and the time since the last notification is strictly greater than
\* the minimum interval (false when it equals the interval).
C8_SendFrameCondition ==
    pfn = "send_frame_condition returned" =>
        LET elapsed == pargs[1]
            streak == pargs[2]
            min_interval == config.bot_frame_timeout
            min_streak == config.min_detections_in_a_row
        IN  /\ pres <=> (streak >= min_streak /\ elapsed > min_interval)
            /\ streak < min_streak => ~ pres
            /\ elapsed <= min_interval => ~ pres

\* C8 witness: the streak is satisfied and the elapsed time equals the
\* minimum interval: the call has returned false
C8_ElapsedEqualsInterval ==
    /\ pfn = "send_frame_condition returned"
    /\ pargs[2] >= config.min_detections_in_a_row
    /\ pargs[1] = config.bot_frame_timeout
    /\ ~ pres

\* C9: is_point_in_rectangle is true iff left < x < right and top < y <
\* bottom; the corner (left, top) is not contained, and the point (left + 1,
\* top + 1), when it is inside the rectangle, is.
C9_OpenIntervalContainment ==
    pfn = "is_point_in_rectangle returned" =>
        LET x == pargs[1]
            y == pargs[2]
            left == pargs[3]
            top == pargs[4]
            right == pargs[5]
            bottom == pargs[6]
        IN  /\ pres <=> (left < x /\ x < right /\ top < y /\ y < bottom)
            /\ (x \in {left, right} \/ y \in {top, bottom}) => ~ pres
            /\ (x = left + 1 /\ y = top + 1 /\ x < right /\ y < bottom)
                  => pres

\* C9 witness: the point is the corner (left, top) of a rectangle that has
\* an interior, and the call has returned false
C9_CornerNotContained ==
    /\ pfn = "is_point_in_rectangle returned"
    /\ pargs[1] = pargs[3] /\ pargs[2] = pargs[4]
    /\ pargs[3] + 1 < pargs[5] /\ pargs[4] + 1 < pargs[6]
    /\ ~ pres

\* the scenario of C10: the single zone (0.1, 0.1, 0.9, 0.9) on a frame of
\* 100 x 100 pixels, and a box that has the given anchor point
\* ((x1 + x2) / 2, max(y1, y2))
ScenarioC10(box) ==
    /\ pfn = "zone_test returned"
    /\ config.cameras[1].zones = << <<1, 1, 9, 9>> >>
    /\ frame_width = 100 /\ frame_height = 100
    /\ pargs = box

\* C10 as stated: the detection anchored at (50, 95) is dropped and the
\* detection anchored at (5, 5) is not.
C10_Original ==
    /\ ScenarioC10(<<40, 80, 60, 95>>) => pres
    /\ ScenarioC10(<<0, 0, 10, 5>>) => ~ pres

\* C10 amended: the detection anchored at (50, 95) is below the zone's
\* bottom edge at 90 pixels, so outside the zone, and is not dropped; the
\* detection anchored at (5, 5) is outside and is not dropped.
C10_ZoneScenario ==
    /\ ScenarioC10(<<40, 80, 60, 95>>) => ~ pres
    /\ ScenarioC10(<<0, 0, 10, 5>>) => ~ pres

\* C10 witness: the zone test of the box anchored at (50, 95) has returned
C10_Anchor5095Tested == ScenarioC10(<<40, 80, 60, 95>>) /\ ~ pres

\* C11: the reader's publish never waits for the consumer.  Whatever main()
\* does, also when it never calls read(), a reader that holds a decoded
\* frame has a step to take; the step that ends the publish has put that
\* frame and leaves it as the only frame in the queue; and the reader gets
\* to its next camera read or leaves its loop at the stop check.
C11_PublishNeverBlocks ==
    /\ \A c \in CameraIds :
          []((c \in Cameras /\ rpc[c] \in {"empty", "get", "put"})
                => <>(c \in Cameras
                         /\ rpc[c] \in {"decode", "stopped", "crashed"}))
    /\ [](\A c \in Cameras :
             rpc[c] \in {"empty", "get", "put"} => ENABLED ReaderPublish(c))
    /\ [][\A c \in Cameras :
             (rpc[c] \in {"empty", "get", "put"}
                 /\ rpc'[c] \notin {"empty", "get", "put"})
                => /\ rpc'[c] = "stopchk"
                   /\ published'[c] = frame[c]
                   /\ q'[c] = << frame[c] >>
        ]_vars

\* C11 witness: every frame of the source was published while main() never
\* read one, and the queue holds the last of them only
C11_AllPublishedNoneRead ==
    \E c \in Cameras :
        /\ published[c] = MaxFrames
        /\ delivered[c] = << >>
        /\ lastRead[c] = "-"
        /\ q[c] = << MaxFrames >>

\* C12: a failed camera read ends the reader for good.  A step that leaves
\* line 58 either has decoded one more frame or has stopped the reader
\* without touching the queue; once the reader has stopped it stays stopped,
\* decodes and publishes nothing more, the queue holds at most one frame
\* and only loses frames, and once the queue is empty every read() times out.
C12_DecodeFailureStops ==
    [][\A c \in Cameras :
          /\ (rpc[c] = "decode" /\ rpc'[c] # "decode")
                => \/ rpc'[c] = "empty" /\ frame'[c] = frame[c] + 1
                   \/ /\ rpc'[c] = "stopped"
                      /\ frame'[c] = frame[c]
                      /\ q'[c] = q[c]
                      /\ published'[c] = published[c]
          /\ rpc[c] = "stopped"
                => /\ rpc'[c] = "stopped"
                   /\ frame'[c] = frame[c]
                   /\ published'[c] = published[c]
                   /\ Len(q[c]) <= 1
                   /\ Len(q'[c]) <= Len(q[c])
                   /\ (q[c] = << >> /\ lastRead'[c] # lastRead[c]
                          /\ lastRead[c] = "-")
                         => lastRead'[c] = "none"
      ]_vars

\* C12 witness: the camera read failed (no stop was requested), the frame
\* that was pending has been returned, and the read after it timed out
C12_StoppedThenNoFrame ==
    \E c \in Cameras :
        /\ rpc[c] = "stopped"
        /\ _stop[c] = "false"
        /\ delivered[c] # << >>
        /\ Last(delivered[c]) = published[c]
        /\ q[c] = << >>
        /\ lastRead[c] = "none"
        /\ toRun[c] >= 1

\* C13: camera sessions are isolated.  A timed-out read() of camera c is
\* handled and the run goes on (the failure check for c, then the read of
\* the next camera or the next iteration), and no step of c's reader, of
\* c's timed-out read or of c's failure check changes the queue, a counter
\* or the timestamp of another camera.
C13_SessionsIsolated ==
    [][\A c \in Cameras :
          /\ (lastRead[c] = "-" /\ lastRead'[c] = "none")
                => mpc' = "failcheck" /\ cur' = c
          /\ (mpc = "failcheck" /\ cur = c /\ mpc' # mpc)
                => IF c < NumCameras
                      THEN mpc' = "read" /\ cur' = c + 1
                      ELSE mpc' = "loop_head"
          /\ ( \/ rpc'[c] # rpc[c]
               \/ lastRead[c] = "-" /\ lastRead'[c] = "none"
               \/ mpc = "failcheck" /\ cur = c /\ mpc' # mpc )
                => \A d \in Cameras \ {c} :
                      /\ q'[d] = q[d]
                      /\ queue_timeouts_counter'[d] = queue_timeouts_counter[d]
                      /\ detections_in_a_row'[d] = detections_in_a_row[d]
                      /\ last_detection_dt'[d] = last_detection_dt[d]
      ]_vars

\* a zone as the specification wants it: four fractions in [0, 1] (tenths
\* here) with left < right and top < bottom
WellFormedZone(z) ==
    /\ Len(z) = 4
    /\ \A i \in 1..4 : z[i] \in 0..10
    /\ z[1] < z[3]
    /\ z[2] < z[4]

\* C14: a malformed zone is rejected when the session is constructed.  No
\* camera object exists (its reader thread is never started) and no loop
\* iteration runs with a zone in the camera's zone list that is not well
\* formed.
C14_MalformedZoneRejected ==
    \A c \in Cameras :
        (rpc[c] # "unstarted" \/ loop_iteration_counter > 0)
            => \A i \in DOMAIN config.cameras[c].zones :
                   WellFormedZone(config.cameras[c].zones[i])

\* C15: detections_in_a_row equals the number of latest processed frames in
\* a row that each had a counted detection: such a frame adds 1, also when
\* the notification goes out for it, a processed frame without one sets it
\* to 0, and a timed-out read leaves it as it is.
C15_StreakCountsFrames ==
    \A c \in Cameras : detections_in_a_row[c] = hitRun[c]

\* C15 witness: a read timed out after a frame whose detection was notified,
\* and the streak still stands at the frames counted before
C15_StreakKeptOverTimeout ==
    \E c \in Cameras :
        /\ mpc = "failcheck" /\ cur = c
        /\ lastRead[c] = "none"
        /\ notified[c] >= 1
        /\ detections_in_a_row[c] = 2

\* the configuration of the scenario: three detections in a row, 60 seconds
\* between notifications
ScenarioC16 ==
    /\ config.min_detections_in_a_row = 3
    /\ config.bot_frame_timeout = 60

\* C16: on a processed frame send_cv2_frame is called exactly when the
\* frame has a counted detection and, with the streak already incremented
\* for it, send_frame_condition holds; exactly then last_detection_dt is set
\* to the time of the call.  With a minimum streak of 3, an interval of 60
\* seconds and the last notification 61 seconds or more back, the call is
\* made on the third counted frame in a row and on neither of the first two.
C16_NotifiedOnThird ==
    [][\A c \in Cameras :
          (mpc = "process" /\ cur = c /\ mpc' # mpc)
             => LET hit == hitRun'[c] > 0
                    streak == detections_in_a_row[c] + 1
                    elapsed == now - last_detection_dt[c]
                    due == /\ hit
                           /\ streak >= config.min_detections_in_a_row
                           /\ elapsed > config.bot_frame_timeout
                IN  /\ notified'[c] = notified[c] + (IF due THEN 1 ELSE 0)
                    /\ due => last_detection_dt'[c] = now'
                    /\ ~ due => last_detection_dt'[c] = last_detection_dt[c]
                    /\ (ScenarioC16 /\ elapsed >= 61 /\ hit)
                          => /\ hitRun'[c] \in {1, 2}
                                  => notified'[c] = notified[c]
                             /\ hitRun'[c] = 3
                                  => notified'[c] = notified[c] + 1
                    /\ ScenarioC16
                          => /\ send_frame_condition(61, 3, config)
                             /\ ~ send_frame_condition(61, 2, config)
                             /\ ~ send_frame_condition(61, 1, config)
      ]_vars

\* C16 witness: in the scenario's configuration the third counted frame in a
\* row has just been notified and the timestamp is the time of that call
C16_ThirdFrameNotified ==
    \E c \in Cameras :
        /\ ScenarioC16
        /\ hitRun[c] = 3
        /\ detections_in_a_row[c] = 3
        /\ notified[c] = 1
        /\ last_detection_dt[c] >= 0

\* C17: stopping is cooperative and takes effect.  Setting the flag changes
\* nothing of the reader thread (a camera read in progress goes on); once
\* the flag is set a reader that is past its camera read never starts
\* another one, so at most the read in progress completes; and, the camera
\* read returning, a reader thread that is alive when stop_reader() is
\* called ends in Stopped.
C17_StopTakesEffect ==
    /\ \A c \in CameraIds :
          []((c \in Cameras /\ _stop[c] = "true" /\ rpc[c] # "crashed")
                => <>(c \in Cameras /\ rpc[c] = "stopped"))
    /\ [][\A c \in Cameras :
             /\ _stop'[c] # _stop[c]
                   => rpc'[c] = rpc[c] /\ frame'[c] = frame[c] /\ q'[c] = q[c]
             /\ (_stop[c] = "true" /\ rpc[c] # "decode")
                   => rpc'[c] # "decode" /\ frame'[c] = frame[c]
        ]_vars

\* C17 witness: stop_reader() has been called, the reader has published its
\* last frame and has stopped with that frame still queued
C17_StoppedAfterStop ==
    \E c \in Cameras :
        /\ _stop[c] = "true"
        /\ rpc[c] = "stopped"
        /\ mpc = "done"
        /\ frame[c] < MaxFrames
        /\ q[c] = << frame[c] >>

\* C18: a failure report goes out exactly when read() has just timed out for
\* the N-th time in a row (N = timeout_count_before_message, the verbosity
\* allowing failure messages): every run of N timeouts in a row gives one
\* report, and timeouts separated by a successful read never add up to one.
C18_ReportOnNthInARow ==
    [][\A c \in Cameras :
          (mpc = "failcheck" /\ cur = c /\ mpc' # mpc)
             => (reports'[c] = reports[c] + 1
                    <=> /\ toRun[c] = config.timeout_count_before_message
                        /\ config.runtime_verbose_level >= FailureVerboseLevel)
      ]_vars

\* C19: the initial last_detection_dt lies so far back that the interval
\* never holds back a session's first notification.  For an interval shorter
\* than the time since that initial value, a session that has not notified
\* yet calls send_cv2_frame on the processed frame that brings
\* detections_in_a_row up to min_detections_in_a_row.
C19_FirstNotificationNotHeldBack ==
    [][\A c \in Cameras :
          ( /\ mpc = "process" /\ cur = c /\ mpc' # mpc
            /\ notified[c] = 0
            /\ config.bot_frame_timeout < now - Year2000
            /\ hitRun'[c] > 0
            /\ detections_in_a_row'[c] >= config.min_detections_in_a_row )
             => /\ last_detection_dt[c] = Year2000
                /\ notified'[c] = 1
                /\ detections_in_a_row'[c] = config.min_detections_in_a_row
      ]_vars

\* C19 witness: the first notification of a session went out on the frame
\* that brought the streak to a minimum of 2 or more, with an interval
\* longer than the whole run
C19_FirstNotificationOut ==
    \E c \in Cameras :
        /\ notified[c] = 1
        /\ config.min_detections_in_a_row >= 2
        /\ config.bot_frame_timeout > MaxTime
        /\ detections_in_a_row[c] = config.min_detections_in_a_row
        /\ last_detection_dt[c] >= 0

\* C20: the frames read() returns on one session are pairwise distinct and
\* come in the order the reader decoded them: every frame returned was
\* decoded after every frame returned before it, and a read() that returns
\* a frame leaves the queue empty, so the frame is handed out once.
C20_DeliveredInOrder ==
    [][\A c \in Cameras :
          /\ \A i \in 1..Len(delivered[c]) : \A j \in 1..Len(delivered[c]) :
                i < j => delivered[c][i] < delivered[c][j]
          /\ delivered'[c] # delivered[c]
                => /\ Len(delivered'[c]) = Len(delivered[c]) + 1
                   /\ delivered[c] # << >>
                         => Last(delivered'[c]) > Last(delivered[c])
                   /\ Last(delivered'[c]) <= frame[c]
                   /\ q'[c] = << >>
          /\ (q[c] = << >> /\ q'[c] # << >>)
                => published'[c] # published[c]
      ]_vars

\* C20 witness: two reads returned frames and a frame decoded between them
\* was never handed out
C20_TwoDeliveredOneSkipped ==
    \E c \in Cameras :
        /\ Len(delivered[c]) >= 2
        /\ delivered[c][2] > delivered[c][1] + 1

\* C21: notifications of one camera are rate-limited.  When send_cv2_frame
\* is called for a camera that was notified before, more than
\* bot_frame_timeout seconds have passed since the camera's previous call,
\* whatever frames and timeouts lay between the two.
C21_RateLimited ==
    [][\A c \in Cameras :
          (notified'[c] # notified[c] /\ notified[c] >= 1)
             => sentAt'[c] - sentAt[c] > config.bot_frame_timeout
      ]_vars

\* C21 witness: a camera was notified twice under an interval of a second
\* or more
C21_NotifiedTwice ==
    \E c \in Cameras :
        /\ notified[c] >= 2
        /\ config.bot_frame_timeout >= 1
        /\ sentAt[c] >= 2

\* C22: queue_timeouts_counter never decreases, a failure report goes out
\* only in the failure check that follows a timed-out read, and a camera
\* gets at most one failure report in a run, however often it recovers and
\* fails again.
C22_AtMostOneReport ==
    [][\A c \in Cameras :
          /\ queue_timeouts_counter'[c] >= queue_timeouts_counter[c]
          /\ reports[c] <= 1 /\ reports'[c] <= 1
          /\ reports'[c] # reports[c]
                => /\ mpc = "failcheck" /\ cur = c
                   /\ lastRead[c] = "none"
                   /\ queue_timeouts_counter[c]
                         = config.timeout_count_before_message
      ]_vars

\* C22 witness: the camera was reported, recovered, and has since timed out
\* as many times in a row as the threshold asks, with no second report
C22_FailedAgainUnreported ==
    \E c \in Cameras :
        /\ reports[c] = 1
        /\ toAll[c] > toRun[c]
        /\ toRun[c] = config.timeout_count_before_message
        /\ lastRead[c] = "none"
        /\ mpc = "loop_head"

\* C23: the stop flag is assigned before the reader first tests it.  In
\* every interleaving of the constructor with the thread it starts, a
\* reader that has published and stands at the test of line 69 finds
\* self._stop assigned, and no reader thread ends with AttributeError.
C23_StopFlagInitialised ==
    \A c \in Cameras :
        /\ rpc[c] = "stopchk" => _stop[c] # "unset"
        /\ rpc[c] # "crashed"

====
